---- MODULE Spec2Model ----
(***************************************************************************)
(* RaterHub History Analyzer (src/main.py): one run of the script over an  *)
(* uploaded browser-history table.  The run is a straight pipeline         *)
(*   schema check -> date parse -> month/year filter -> raterhub filter -> *)
(*   task-id extraction -> GMT+7 to Pacific conversion -> projection and   *)
(*   dropna -> to_datetime -> drop_duplicates -> sort -> display -> stats  *)
(* wrapped in one try/except.  Each pipeline statement is one action; pc   *)
(* is the position of the script.                                          *)
(***************************************************************************)
EXTENDS Integers, Sequences, FiniteSets, TLC

VARIABLES uploaded_file, df, selected_month, selected_year, pc,
          filtered_df, raterhub_df, result_df, display

vars == <<uploaded_file, df, selected_month, selected_year, pc,
          filtered_df, raterhub_df, result_df, display>>

(* Largest number of rows in the uploaded table. *)
MaxRows == 3

(* A missing cell (NaN) and Python's None: the empty text. *)
Null == <<>>

(***************************************************************************)
(* Calendar arithmetic behind datetime, pytz and pandas timestamps.        *)
(* Instants are seconds since 00:00:00 UTC on 1 January of EpochYear.      *)
(***************************************************************************)
EpochYear == 2022
LastYear == 2025

IsLeap(y) == (y % 4 = 0 /\ y % 100 # 0) \/ y % 400 = 0

DaysInMonth(y, m) ==
    IF m = 2 THEN (IF IsLeap(y) THEN 29 ELSE 28)
    ELSE IF m \in {4, 6, 9, 11} THEN 30 ELSE 31

DaysInYear(y) == IF IsLeap(y) THEN 366 ELSE 365

RECURSIVE DaysBeforeYear(_)
DaysBeforeYear(y) ==
    IF y <= EpochYear THEN 0 ELSE DaysBeforeYear(y - 1) + DaysInYear(y - 1)

RECURSIVE DaysBeforeMonth(_, _)
DaysBeforeMonth(y, m) ==
    IF m <= 1 THEN 0 ELSE DaysBeforeMonth(y, m - 1) + DaysInMonth(y, m - 1)

(* Day number of the civil date y-m-d. *)
DaysFromCivil(y, m, d) == DaysBeforeYear(y) + DaysBeforeMonth(y, m) + (d - 1)

(* The civil date <<y, m, d>> of a day number. *)
CivilFromDays(n) ==
    LET y == CHOOSE yy \in EpochYear..LastYear :
                 DaysBeforeYear(yy) <= n /\ n < DaysBeforeYear(yy + 1)
        r == n - DaysBeforeYear(y)
        m == CHOOSE mm \in 1..12 :
                 DaysBeforeMonth(y, mm) <= r
                 /\ r < DaysBeforeMonth(y, mm) + DaysInMonth(y, mm)
    IN <<y, m, r - DaysBeforeMonth(y, m) + 1>>

(* 0 = Sunday; 1 January 2022 was a Saturday. *)
Weekday(n) == (n + 6) % 7

(* The wall-clock value <<Y, M, D, h, m, s>> of a count of seconds. *)
WallClock(secs) ==
    LET c == CivilFromDays(secs \div 86400)
        r == secs % 86400
    IN <<c[1], c[2], c[3], r \div 3600, (r % 3600) \div 60, r % 60>>

(* The count of seconds of a wall-clock value. *)
SecondsOf(w) ==
    DaysFromCivil(w[1], w[2], w[3]) * 86400 + w[4] * 3600 + w[5] * 60 + w[6]

(***************************************************************************)
(* pytz zones.  Asia/Bangkok is UTC+7 all year.  US/Pacific is UTC-8, and  *)
(* UTC-7 from 02:00 PST on the second Sunday of March (10:00 UTC) until    *)
(* 02:00 PDT on the first Sunday of November (09:00 UTC).                  *)
(***************************************************************************)
BangkokOffset == 7 * 3600

DstStartUtc(y) ==
    LET d == CHOOSE dd \in 8..14 : Weekday(DaysFromCivil(y, 3, dd)) = 0
    IN DaysFromCivil(y, 3, d) * 86400 + 10 * 3600

DstEndUtc(y) ==
    LET d == CHOOSE dd \in 1..7 : Weekday(DaysFromCivil(y, 11, dd)) = 0
    IN DaysFromCivil(y, 11, d) * 86400 + 9 * 3600

IsDst(utc) ==
    LET y == CivilFromDays(utc \div 86400)[1]
    IN DstStartUtc(y) <= utc /\ utc < DstEndUtc(y)

PacificOffsetSkewed(utc) == IF IsDst(utc) THEN -(7 * 3600) ELSE -(9 * 3600)

PacificOffset(utc) == IF IsDst(utc) THEN -(7 * 3600) ELSE -(8 * 3600)

(* datetime.strptime(dt_str, '%Y-%m-%d %H:%M:%S') accepts the time text. *)
TimeParses(time) ==
    /\ time # Null
    /\ Len(time) = 3
    /\ time[1] \in 0..23 /\ time[2] \in 0..59 /\ time[3] \in 0..59

(* gmt7.localize(dt_gmt7): the UTC instant of a GMT+7 wall-clock value. *)
LocalizeGmt7(date, time) ==
    SecondsOf(<<date[1], date[2], date[3], time[1], time[2], time[3]>>)
        - BangkokOffset

(* dt_gmt7.astimezone(pacific).strftime(...): the Pacific wall clock. *)
AsPacific(utc) == WallClock(utc + PacificOffset(utc))

ErrorText == <<"Error converting time">>

convert_to_pacific(date, time) ==
    IF TimeParses(time) THEN AsPacific(LocalizeGmt7(date, time))
    ELSE ErrorText

(***************************************************************************)
(* Text.  A string is the sequence of its characters.                      *)
(***************************************************************************)
Digits == {"0", "1", "2", "3", "4", "5", "6", "7", "8", "9"}

UpperCase == <<"A", "B", "C", "D", "E", "F", "G", "H", "I", "J", "K", "L", "M", "N", "O", "P", "Q", "R", "S", "T", "U", "V", "W", "X", "Y", "Z">>
LowerCase == <<"a", "b", "c", "d", "e", "f", "g", "h", "i", "j", "k", "l", "m", "n", "o", "p", "q", "r", "s", "t", "u", "v", "w", "x", "y", "z">>

(* str.lower() of one character. *)
LowerChar(c) ==
    IF \E i \in 1..Len(UpperCase) : UpperCase[i] = c
    THEN LowerCase[CHOOSE i \in 1..Len(UpperCase) : UpperCase[i] = c]
    ELSE c

Lower(s) == [i \in 1..Len(s) |-> LowerChar(s[i])]

(* needle occurs in s starting at position i. *)
OccursAt(s, needle, i) ==
    /\ i >= 1
    /\ i + Len(needle) - 1 <= Len(s)
    /\ SubSeq(s, i, i + Len(needle) - 1) = needle

Raterhub == <<"r", "a", "t", "e", "r", "h", "u", "b">>
TaskIdsEq == <<"t", "a", "s", "k", "I", "d", "s", "=">>

(* .str.contains('raterhub', case=False, na=False) on one cell. *)
str_contains_raterhub(url) ==
    /\ url # Null
    /\ \E i \in 1..Len(url) : OccursAt(Lower(url), Raterhub, i)

(* Last position of the run of digits that starts at position j. *)
RECURSIVE DigitRunEnd(_, _)
DigitRunEnd(s, j) ==
    IF j + 1 <= Len(s) /\ s[j + 1] \in Digits THEN DigitRunEnd(s, j + 1) ELSE j

(* r'taskIds=(\d+)' matches at position i. *)
PatternAt(url, i) ==
    /\ OccursAt(url, TaskIdsEq, i)
    /\ i + Len(TaskIdsEq) <= Len(url)
    /\ url[i + Len(TaskIdsEq)] \in Digits

(* re.search(...).group(1) of the leftmost match, or None. *)
extract_task_id(url) ==
    LET hits == {i \in 1..Len(url) : PatternAt(url, i)}
    IN IF hits = {} THEN Null
       ELSE LET i == CHOOSE h \in hits : \A k \in hits : h <= k
                j == i + Len(TaskIdsEq)
            IN SubSeq(url, j, DigitRunEnd(url, j))

(* URLs of the uploaded history. *)
(* raterhub?taskIds=12 *)
UrlTask12 ==
    <<"r", "a", "t", "e", "r", "h", "u", "b", "?", "t", "a", "s", "k", "I", "d", "s", "=", "1", "2">>
(* RaterHub/a?taskIds=12&b *)
UrlTask12Other ==
    <<"R", "a", "t", "e", "r", "H", "u", "b", "/", "a", "?", "t", "a", "s", "k", "I", "d", "s", "=", "1", "2", "&", "b">>
(* raterhub?taskIds=7&taskIds=12 *)
UrlTwoIds ==
    <<"r", "a", "t", "e", "r", "h", "u", "b", "?", "t", "a", "s", "k", "I", "d", "s", "=", "7", "&", "t", "a", "s", "k", "I", "d", "s", "=", "1", "2">>
(* raterhub/nope *)
UrlNoTask ==
    <<"r", "a", "t", "e", "r", "h", "u", "b", "/", "n", "o", "p", "e">>
(* example?taskIds=12 *)
UrlElsewhere ==
    <<"e", "x", "a", "m", "p", "l", "e", "?", "t", "a", "s", "k", "I", "d", "s", "=", "1", "2">>
(* RATERHUB?taskids=5&taskIds=&taskIds=3x *)
UrlEmptyFirst ==
    <<"R", "A", "T", "E", "R", "H", "U", "B", "?", "t", "a", "s", "k", "i", "d", "s", "=", "5", "&", "t", "a", "s", "k", "I", "d", "s", "=", "&", "t", "a", "s", "k", "I", "d", "s", "=", "3", "x">>

(***************************************************************************)
(* The uploaded file is [header, rows].  A row is [date, time, url]: date   *)
(* is the text of the date cell as <<year, month, day>>, time the text of  *)
(* the time cell as the numbers between its colons, url the characters of  *)
(* the url cell.  A data-frame row also carries idx, its pandas index      *)
(* label (the row's position in the file).                                 *)
(***************************************************************************)
months == <<"January", "February", "March", "April", "May", "June",
            "July", "August", "September", "October", "November", "December">>

required_columns == {"order", "id", "date", "time", "title", "url"}

Cell(date, time, url) == [date |-> date, time |-> time, url |-> url]

RowPool ==
    { Cell(<<2024, 11, 3>>, <<15, 30, 0>>, UrlTask12),
      Cell(<<2024, 11, 3>>, <<16, 0, 0>>, UrlTask12Other),
      Cell(<<2024, 11, 3>>, <<16, 0, 0>>, UrlTwoIds),
      Cell(<<2024, 11, 1>>, <<9, 0, 0>>, UrlEmptyFirst),
      Cell(<<2024, 11, 2>>, <<10, 0, 0>>, UrlNoTask),
      Cell(<<2024, 11, 2>>, <<10, 0, 0>>, UrlElsewhere),
      Cell(<<2024, 11, 2>>, <<10, 0, 0>>, Null),
      Cell(<<2024, 10, 31>>, <<23, 59, 59>>, UrlTask12),
      Cell(<<2023, 11, 3>>, <<8, 0, 0>>, UrlTwoIds),
      Cell(<<2024, 11, 5>>, <<9, 0>>, UrlTask12),
      Cell(<<2024, 11, 5>>, <<25, 0, 0>>, UrlNoTask),
      Cell(<<2024, 11, 31>>, <<9, 0, 0>>, UrlTask12) }

ColumnPool ==
    { required_columns,
      required_columns \cup {"visit_count"},
      required_columns \ {"title"},
      required_columns \ {"date", "url"} }

MonthPool == {"November", "October"}
YearPool == {2024}

(* The files of at most MaxRows rows. *)
Files ==
    { [header |-> h, rows |-> r] :
        h \in ColumnPool, r \in UNION {[1..n -> RowPool] : n \in 0..MaxRows} }

(* Rows on both sides of the two Pacific clock changes of 2024, which fall *)
(* at 17:00 on 10 March and at 16:00 on 3 November in GMT+7.               *)
ClockChangePool ==
    { Cell(<<2024, mo, d>>, <<h, mi, 0>>, u) :
        mo \in {3, 11}, d \in {3, 10}, h \in 13..19, mi \in {0, 30},
        u \in {UrlTask12, UrlTwoIds} }

(* The files of two rows around a clock change. *)
ClockChangeFiles ==
    { [header |-> required_columns, rows |-> r] :
        r \in [1..2 -> ClockChangePool] }

(* pd.read_csv(uploaded_file): the rows under a RangeIndex. *)
read_csv(file) ==
    [i \in 1..Len(file.rows) |->
        [idx |-> i, date |-> file.rows[i].date, time |-> file.rows[i].time,
         url |-> file.rows[i].url]]

(***************************************************************************)
(* Data-frame operations.                                                  *)
(***************************************************************************)
has_required_columns_lax(cols) == (required_columns \ {"title"}) \subseteq cols

(* all(col in df.columns for col in required_columns) *)
has_required_columns(cols) == required_columns \subseteq cols

(* The date text names a day of the calendar. *)
DateParses(date) ==
    /\ date # Null
    /\ Len(date) = 3
    /\ date[2] \in 1..12
    /\ date[3] \in 1..DaysInMonth(date[1], date[2])

to_datetime_coerce(frame) == TRUE

(* pd.to_datetime(df['date']) raises unless every cell parses. *)
to_datetime_ok(frame) == \A i \in 1..Len(frame) : DateParses(frame[i].date)

(* pd.to_datetime(df['date']): the Timestamp of each date cell. *)
to_datetime(frame) ==
    [i \in 1..Len(frame) |->
        [idx |-> frame[i].idx,
         date |-> [year |-> frame[i].date[1], month |-> frame[i].date[2],
                   day |-> frame[i].date[3]],
         time |-> frame[i].time, url |-> frame[i].url]]

(* months.index(selected_month) + 1 *)
month_num(name) == CHOOSE i \in 1..Len(months) : months[i] = name

month_filter_year_only(frame, month, year) ==
    SelectSeq(frame, LAMBDA r : r.date.year = year)

(* df[(df['date'].dt.month == month_num) & (df['date'].dt.year == year)] *)
month_filter(frame, month, year) ==
    SelectSeq(frame, LAMBDA r : r.date.month = month /\ r.date.year = year)

(* filtered_df[filtered_df['url'].str.contains('raterhub', ...)] *)
raterhub_filter(frame) ==
    SelectSeq(frame, LAMBDA r : str_contains_raterhub(r.url))

(* raterhub_df['task_id'] = raterhub_df['url'].apply(extract_task_id) *)
add_task_id(frame) ==
    [i \in 1..Len(frame) |->
        [idx |-> frame[i].idx, date |-> frame[i].date, time |-> frame[i].time,
         url |-> frame[i].url, task_id |-> extract_task_id(frame[i].url)]]

(* raterhub_df['pacific_time'] = raterhub_df.apply(convert_to_pacific) *)
add_pacific_time(frame) ==
    [i \in 1..Len(frame) |->
        [idx |-> frame[i].idx, date |-> frame[i].date, time |-> frame[i].time,
         url |-> frame[i].url, task_id |-> frame[i].task_id,
         pacific_time |->
             convert_to_pacific(<<frame[i].date.year, frame[i].date.month,
                                  frame[i].date.day>>, frame[i].time)]]

(* raterhub_df[['pacific_time', 'url', 'task_id']] with the new headers *)
project(frame) ==
    [i \in 1..Len(frame) |->
        [idx |-> frame[i].idx, Date |-> frame[i].pacific_time,
         URL |-> frame[i].url, TaskID |-> frame[i].task_id]]

dropna_none(frame) == frame

(* result_df.dropna(subset=['Task ID']) *)
dropna(frame) == SelectSeq(frame, LAMBDA r : r.TaskID # Null)

(* A 'Date (Pacific Time)' cell holds the except branch's text. *)
IsErrorText(cell) == Len(cell) = 1

(* pd.to_datetime(result_df[...]) raises unless every cell is a timestamp. *)
pacific_to_datetime_ok(frame) ==
    \A i \in 1..Len(frame) : ~IsErrorText(frame[i].Date)

(* pd.to_datetime(result_df['Date (Pacific Time)']): naive timestamps. *)
pacific_to_datetime(frame) ==
    [i \in 1..Len(frame) |->
        [idx |-> frame[i].idx, Date |-> SecondsOf(frame[i].Date),
         URL |-> frame[i].URL, TaskID |-> frame[i].TaskID]]

drop_duplicates_none(frame) == frame

(* result_df.drop_duplicates(subset=['Task ID']): keep='first' *)
drop_duplicates(frame) ==
    LET first(i) == \A j \in 1..(i - 1) : frame[j].TaskID # frame[i].TaskID
        kept == {i \in 1..Len(frame) : first(i)}
        pos(k) == CHOOSE i \in kept : Cardinality({j \in kept : j < i}) = k - 1
    IN [k \in 1..Cardinality(kept) |-> frame[pos(k)]]

(* The rearrangements of a frame's rows. *)
Rearrangements(frame) ==
    LET n == Len(frame)
        perms == {f \in [1..n -> 1..n] : \A i, j \in 1..n : i # j => f[i] # f[j]}
    IN {[i \in 1..n |-> frame[f[i]]] : f \in perms}

sort_values_unsorted(frame) == Rearrangements(frame)

(* result_df.sort_values('Date (Pacific Time)'): ascending; the default     *)
(* quicksort leaves the order of rows with equal keys open.                *)
sort_values(frame) ==
    {g \in Rearrangements(frame) :
        \A i \in 1..(Len(g) - 1) : g[i].Date <= g[i + 1].Date}

(* result_df[...].dt.strftime('%Y-%m-%d %H:%M:%S') *)
strftime(frame) ==
    [i \in 1..Len(frame) |->
        [idx |-> frame[i].idx, Date |-> WallClock(frame[i].Date),
         URL |-> frame[i].URL, TaskID |-> frame[i].TaskID]]

(* total_tasks = len(result_df) *)
total_tasks == Len(result_df)

total_visits_all == Len(raterhub_df)

(* total_visits = len(raterhub_df.dropna(subset=['task_id'])) *)
total_visits == Len(SelectSeq(raterhub_df, LAMBDA r : r.task_id # Null))

(* result_df.groupby('Date Only').size(): <<date, count>> per Pacific day *)
tasks_by_day(frame) ==
    LET day(r) == <<r.Date[1], r.Date[2], r.Date[3]>>
        days == {day(frame[i]) : i \in 1..Len(frame)}
    IN {<<d, Cardinality({i \in 1..Len(frame) : day(frame[i]) = d})>> : d \in days}

(***************************************************************************)
(* What the page shows: one entry per streamlit call, in call order.       *)
(***************************************************************************)
Shown(widget, what, n) == [widget |-> widget, what |-> what, n |-> n]

ExceptMessagesShort == <<Shown("error", "An error occurred", 0)>>

(* except Exception as e: three st.error calls *)
ExceptMessages ==
    <<Shown("error", "An error occurred", 0),
      Shown("error", "Please make sure your file has the correct format", 0),
      Shown("error", "try checking the date and time columns", 0)>>

Widgets(w) == SelectSeq(display, LAMBDA e : e.widget = w)

(***************************************************************************)
(* The run.                                                                *)
(***************************************************************************)
Init ==
    /\ uploaded_file \in Files
    /\ df = <<>>
    /\ selected_month \in MonthPool
    /\ selected_year \in YearPool
    /\ pc = "read_csv"
    /\ filtered_df = <<>>
    /\ raterhub_df = <<>>
    /\ result_df = <<>>
    /\ display = <<>>

(* The except handler of the run. *)
Raise ==
    /\ display' = display \o ExceptMessages
    /\ pc' = "failed"

(* Line 32: df = pd.read_csv(uploaded_file) *)
ReadCsv ==
    /\ pc = "read_csv"
    /\ df' = read_csv(uploaded_file)
    /\ pc' = "check_columns"
    /\ UNCHANGED <<uploaded_file, selected_month, selected_year,
                   filtered_df, raterhub_df, result_df, display>>

(* Lines 35-41: the required-columns check and the preview. *)
CheckColumns ==
    /\ pc = "check_columns"
    /\ IF has_required_columns(uploaded_file.header)
       THEN /\ display' = Append(display, Shown("dataframe", "preview", Len(df)))
            /\ pc' = "parse_dates"
       ELSE /\ display' = Append(display, Shown("error", "missing required columns", 0))
            /\ pc' = "rejected"
    /\ UNCHANGED <<uploaded_file, df, selected_month, selected_year,
                   filtered_df, raterhub_df, result_df>>

(* Line 47: df['date'] = pd.to_datetime(df['date']) *)
ParseDates ==
    /\ pc = "parse_dates"
    /\ IF to_datetime_ok(df)
       THEN /\ df' = to_datetime(df)
            /\ pc' = "filter_month"
            /\ UNCHANGED display
       ELSE /\ Raise
            /\ UNCHANGED df
    /\ UNCHANGED <<uploaded_file, selected_month, selected_year,
                   filtered_df, raterhub_df, result_df>>

(* Lines 44-51: the month/year filter. *)
FilterMonth ==
    /\ pc = "filter_month"
    /\ filtered_df' = month_filter(df, month_num(selected_month), selected_year)
    /\ pc' = "filter_url"
    /\ UNCHANGED <<uploaded_file, df, selected_month, selected_year,
                   raterhub_df, result_df, display>>

(* Lines 54-58: the raterhub filter and the empty branch. *)
FilterUrl ==
    /\ pc = "filter_url"
    /\ raterhub_df' = raterhub_filter(filtered_df)
    /\ IF raterhub_df' = <<>>
       THEN /\ display' = Append(display, Shown("warning", "No RaterHub URLs found", 0))
            /\ pc' = "no_urls"
       ELSE /\ pc' = "extract"
            /\ UNCHANGED display
    /\ UNCHANGED <<uploaded_file, df, selected_month, selected_year,
                   filtered_df, result_df>>

(* Lines 60-64: the task_id column. *)
ExtractTaskIds ==
    /\ pc = "extract"
    /\ raterhub_df' = add_task_id(raterhub_df)
    /\ pc' = "convert"
    /\ UNCHANGED <<uploaded_file, df, selected_month, selected_year,
                   filtered_df, result_df, display>>

(* Lines 67-87: the pacific_time column. *)
ConvertTimes ==
    /\ pc = "convert"
    /\ raterhub_df' = add_pacific_time(raterhub_df)
    /\ pc' = "project"
    /\ UNCHANGED <<uploaded_file, df, selected_month, selected_year,
                   filtered_df, result_df, display>>

(* Lines 90-94: the three result columns, without the None task ids. *)
Project ==
    /\ pc = "project"
    /\ result_df' = dropna(project(raterhub_df))
    /\ pc' = "to_datetime"
    /\ UNCHANGED <<uploaded_file, df, selected_month, selected_year,
                   filtered_df, raterhub_df, display>>

(* Line 97: pd.to_datetime on the 'Date (Pacific Time)' column. *)
ToDatetime ==
    /\ pc = "to_datetime"
    /\ IF pacific_to_datetime_ok(result_df)
       THEN /\ result_df' = pacific_to_datetime(result_df)
            /\ pc' = "drop_duplicates"
            /\ UNCHANGED display
       ELSE /\ Raise
            /\ UNCHANGED result_df
    /\ UNCHANGED <<uploaded_file, df, selected_month, selected_year,
                   filtered_df, raterhub_df>>

(* Line 100: drop_duplicates on 'Task ID'. *)
DropDuplicates ==
    /\ pc = "drop_duplicates"
    /\ result_df' = drop_duplicates(result_df)
    /\ pc' = "sort"
    /\ UNCHANGED <<uploaded_file, df, selected_month, selected_year,
                   filtered_df, raterhub_df, display>>

(* Lines 102-103: sort by the Pacific timestamp and render it. *)
SortAndRender ==
    /\ pc = "sort"
    /\ \E sorted \in sort_values(result_df) : result_df' = strftime(sorted)
    /\ pc' = "show"
    /\ UNCHANGED <<uploaded_file, df, selected_month, selected_year,
                   filtered_df, raterhub_df, display>>

(* Lines 106-116: the result table and the download button. *)
ShowResult ==
    /\ pc = "show"
    /\ display' = display \o <<Shown("dataframe", "result", Len(result_df)),
                               Shown("download_button", "csv", Len(result_df))>>
    /\ pc' = "statistics"
    /\ UNCHANGED <<uploaded_file, df, selected_month, selected_year,
                   filtered_df, raterhub_df, result_df>>

(* Lines 119-137: the statistics and the tasks-by-day chart. *)
Statistics ==
    /\ pc = "statistics"
    /\ display' = display
          \o <<Shown("write", "total_tasks", total_tasks),
               Shown("write", "total_visits", total_visits)>>
          \o (IF total_visits > total_tasks
              THEN <<Shown("write", "removed", total_visits - total_tasks)>>
              ELSE <<>>)
          \o (IF total_tasks > 0
              THEN <<Shown("bar_chart", "tasks_by_day",
                           Cardinality(tasks_by_day(result_df)))>>
              ELSE <<>>)
    /\ pc' = "finished"
    /\ UNCHANGED <<uploaded_file, df, selected_month, selected_year,
                   filtered_df, raterhub_df, result_df>>

Next ==
    \/ ReadCsv
    \/ CheckColumns
    \/ ParseDates
    \/ FilterMonth
    \/ FilterUrl
    \/ ExtractTaskIds
    \/ ConvertTimes
    \/ Project
    \/ ToDatetime
    \/ DropDuplicates
    \/ SortAndRender
    \/ ShowResult
    \/ Statistics

Spec == Init /\ [][Next]_vars

(* Runs over two rows around a Pacific clock change. *)
InitClockChange ==
    /\ uploaded_file \in ClockChangeFiles
    /\ df = <<>>
    /\ selected_month \in {"March", "November"}
    /\ selected_year \in YearPool
    /\ pc = "read_csv"
    /\ filtered_df = <<>>
    /\ raterhub_df = <<>>
    /\ result_df = <<>>
    /\ display = <<>>

SpecClockChange == InitClockChange /\ [][Next]_vars

(* The run is over. *)
Ended == pc \in {"rejected", "failed", "no_urls", "finished"}


(***************************************************************************)
(* Vocabulary of the properties, stated on the uploaded file.              *)
(***************************************************************************)
Origin(i) == uploaded_file.rows[i]

HeaderComplete == required_columns \subseteq uploaded_file.header

DatesParse == \A i \in 1..Len(uploaded_file.rows) : DateParses(Origin(i).date)

InTargetMonth(c) ==
    /\ months[c.date[2]] = selected_month
    /\ c.date[1] = selected_year

MentionsRaterhub(c) ==
    /\ c.url # Null
    /\ \E i \in 1..Len(c.url) :
          /\ i + 7 <= Len(c.url)
          /\ \A k \in 1..8 : LowerChar(c.url[i + k - 1]) = Raterhub[k]

(* t is the digit run captured by the leftmost taskIds=<digits> of url. *)
FirstTaskIdIs(url, t) ==
    /\ Len(t) >= 1
    /\ \A k \in 1..Len(t) : t[k] \in Digits
    /\ \E i \in 1..Len(url) :
          /\ OccursAt(url, TaskIdsEq, i)
          /\ OccursAt(url, t, i + 8)
          /\ (i + 8 + Len(t) <= Len(url) => url[i + 8 + Len(t)] \notin Digits)
          /\ \A j \in 1..(i - 1) :
                ~(OccursAt(url, TaskIdsEq, j) /\ j + 8 <= Len(url)
                  /\ url[j + 8] \in Digits)

HasTaskId(c) == \E i \in 1..Len(c.url) : PatternAt(c.url, i)

(* Rows of the file that pass the month/year and raterhub filters. *)
Matching ==
    {i \in 1..Len(uploaded_file.rows) :
        InTargetMonth(Origin(i)) /\ MentionsRaterhub(Origin(i))}

(* ... and carry a task id. *)
WithTask == {i \in Matching : HasTaskId(Origin(i))}

(* The GMT+7 wall clock of a row of the file, in seconds. *)
SourceSeconds(c) ==
    SecondsOf(<<c.date[1], c.date[2], c.date[3], c.time[1], c.time[2], c.time[3]>>)

(* Order of two rendered 'YYYY-MM-DD HH:MM:SS' texts. *)
RECURSIVE TextLeqFrom(_, _, _)
TextLeqFrom(x, y, k) ==
    IF k > Len(x) THEN TRUE
    ELSE IF x[k] # y[k] THEN x[k] < y[k]
    ELSE TextLeqFrom(x, y, k + 1)

TextLeq(x, y) == TextLeqFrom(x, y, 1)

(* The result table exists as displayed. *)
OutputReady == pc \in {"show", "statistics", "finished"}

ResultTables == SelectSeq(display, LAMBDA e : e.widget = "dataframe" /\ e.what = "result")

(* C1: in a finished run every task id among the rows passing the filters  *)
(* has exactly one output row, and it is a row with the earliest GMT+7     *)
(* date/time among the rows of that task id, whatever the file order.      *)
ClaimC1 ==
    pc = "finished" =>
        \A i \in WithTask :
            LET t == extract_task_id(Origin(i).url)
                out == {k \in 1..Len(result_df) : result_df[k].TaskID = t}
            IN /\ Cardinality(out) = 1
               /\ \A k \in out : \A j \in WithTask :
                     extract_task_id(Origin(j).url) = t =>
                        SourceSeconds(Origin(result_df[k].idx))
                            <= SourceSeconds(Origin(j))

(* C2: a row whose time does not convert gets the error placeholder and    *)
(* the run still finishes with the output table instead of failing.        *)
ClaimC2 ==
    \A i \in 1..Len(raterhub_df) :
        (Ended /\ ~TimeParses(raterhub_df[i].time)) =>
            /\ IsErrorText(raterhub_df[i].pacific_time)
            /\ pc = "finished"
            /\ Len(ResultTables) = 1

(* C3: no two rows of the output table share a task id. *)
TheoremC3 ==
    OutputReady =>
        \A i, j \in 1..Len(result_df) :
            i # j => result_df[i].TaskID # result_df[j].TaskID

WitnessC3 ==
    /\ pc = "finished"
    /\ Len(result_df) >= 2
    /\ Cardinality(WithTask) > Len(result_df)

(* C4: every output row has a non-null task id equal to the digits of the  *)
(* first taskIds=<digits> match of its original URL, its URL contains      *)
(* "raterhub" in any letter case, and its original date lies in the        *)
(* selected month and year.                                                *)
TheoremC4 ==
    OutputReady =>
        \A k \in 1..Len(result_df) :
            LET r == result_df[k]
                o == Origin(r.idx)
            IN /\ r.TaskID # Null
               /\ r.URL = o.url
               /\ FirstTaskIdIs(o.url, r.TaskID)
               /\ MentionsRaterhub(o)
               /\ InTargetMonth(o)

WitnessC4 ==
    /\ pc = "finished"
    /\ \E k \in 1..Len(result_df) : result_df[k].URL = UrlEmptyFirst
    /\ \E i \in 1..Len(uploaded_file.rows) : ~InTargetMonth(Origin(i))
    /\ \E i \in 1..Len(uploaded_file.rows) : Origin(i).url = UrlElsewhere

(* C5: the rendered Pacific timestamps of the output are non-decreasing    *)
(* from the first row to the last.                                         *)
TheoremC5 ==
    OutputReady =>
        \A k \in 1..(Len(result_df) - 1) :
            TextLeq(result_df[k].Date, result_df[k + 1].Date)

WitnessC5 ==
    /\ pc = "finished"
    /\ Len(result_df) >= 2
    /\ result_df[1].idx > result_df[2].idx
    /\ result_df[1].Date # result_df[2].Date

(* The pacific_time column of raterhub_df is filled in. *)
Converted ==
    pc \in {"project", "to_datetime", "drop_duplicates", "sort", "show",
            "statistics", "finished"}

UtcOf(r) ==
    LocalizeGmt7(<<r.date.year, r.date.month, r.date.day>>, r.time)

(* a is in daylight time and b in standard time less than an hour later. *)
RepeatedHour(a, b) == IsDst(a) /\ ~IsDst(b) /\ b - a < 3600

(* C6 as stated: whenever one row's source instant is before another's,    *)
(* its rendered Pacific timestamp is less than or equal to the other's.    *)
ClaimC6 ==
    Converted =>
        \A i, j \in 1..Len(raterhub_df) :
            (TimeParses(raterhub_df[i].time) /\ TimeParses(raterhub_df[j].time)
             /\ UtcOf(raterhub_df[i]) < UtcOf(raterhub_df[j])) =>
                TextLeq(raterhub_df[i].pacific_time, raterhub_df[j].pacific_time)

(* C6 amended: the rendered Pacific timestamp is monotonic in the source   *)
(* instant except for a pair that straddles the end of daylight time by    *)
(* less than one hour.                                                     *)
TheoremC6 ==
    Converted =>
        \A i, j \in 1..Len(raterhub_df) :
            (TimeParses(raterhub_df[i].time) /\ TimeParses(raterhub_df[j].time)
             /\ UtcOf(raterhub_df[i]) < UtcOf(raterhub_df[j])
             /\ ~RepeatedHour(UtcOf(raterhub_df[i]), UtcOf(raterhub_df[j]))) =>
                TextLeq(raterhub_df[i].pacific_time, raterhub_df[j].pacific_time)

WitnessC6 ==
    /\ pc = "finished"
    /\ Len(raterhub_df) = 2
    /\ IsDst(UtcOf(raterhub_df[1]))
    /\ ~IsDst(UtcOf(raterhub_df[2]))
    /\ UtcOf(raterhub_df[2]) - UtcOf(raterhub_df[1]) = 3600

ClaimC8 ==
    (Ended /\ (~HeaderComplete \/ ~DatesParse)) =>
        /\ pc \in {"rejected", "failed"}
        /\ ResultTables = <<>>
        /\ Len(Widgets("error")) = 1

(* C8 amended: both failures end the run with no output table; a missing   *)
(* column shows exactly one error message, an unparseable date shows three *)
(* (the error and two hints) after the upload preview.                     *)
TheoremC8 ==
    /\ (Ended /\ ~HeaderComplete) =>
          /\ pc = "rejected"
          /\ ResultTables = <<>>
          /\ Len(Widgets("error")) = 1
          /\ Len(display) = 1
    /\ (Ended /\ HeaderComplete /\ ~DatesParse) =>
          /\ pc = "failed"
          /\ ResultTables = <<>>
          /\ result_df = <<>> /\ raterhub_df = <<>> /\ filtered_df = <<>>
          /\ Len(Widgets("error")) = 3
          /\ Len(display) = 4

WitnessC8 ==
    /\ pc = "failed"
    /\ ~DatesParse
    /\ \E i \in WithTask : DateParses(Origin(i).date) /\ TimeParses(Origin(i).time)

(* C9: when a required column is absent the run stops at the column check: *)
(* no date is parsed, nothing is filtered, extracted or converted, and the *)
(* only thing displayed is the missing-columns error.                      *)
TheoremC9 ==
    ~HeaderComplete =>
        /\ pc \in {"read_csv", "check_columns", "rejected"}
        /\ df \in {<<>>, read_csv(uploaded_file)}
        /\ filtered_df = <<>> /\ raterhub_df = <<>> /\ result_df = <<>>
        /\ display = IF pc = "rejected"
                     THEN <<Shown("error", "missing required columns", 0)>>
                     ELSE <<>>

WitnessC9 ==
    /\ pc = "rejected"
    /\ "title" \notin uploaded_file.header
    /\ uploaded_file.header = required_columns \ {"title"}
    /\ WithTask # {}

(* C10: in a run that shows the statistics, total_visits counts the rows   *)
(* passing both filters with a task id, total_tasks counts the rows of the *)
(* final table, total_visits >= total_tasks, and the removed count is      *)
(* shown exactly when positive and then total_tasks + removed equals       *)
(* total_visits.                                                           *)
TheoremC10 ==
    pc = "finished" =>
        LET w == Widgets("write")
            tasks == Len(result_df)
            visits == Cardinality(WithTask)
        IN /\ Len(w) >= 2
           /\ w[1] = Shown("write", "total_tasks", tasks)
           /\ w[2] = Shown("write", "total_visits", visits)
           /\ ResultTables = <<Shown("dataframe", "result", tasks)>>
           /\ visits >= tasks
           /\ Len(w) = IF visits > tasks THEN 3 ELSE 2
           /\ Len(w) = 3 =>
                 /\ w[3].what = "removed"
                 /\ w[3].n > 0
                 /\ tasks + w[3].n = visits

WitnessC10 ==
    /\ pc = "finished"
    /\ Len(Widgets("write")) = 3
    /\ Cardinality(Matching) > Cardinality(WithTask)
    /\ Cardinality(WithTask) > Len(result_df)


====
